---- MODULE Spec2Model ----
(***************************************************************************)
(* A model of src/fluid_sim.py: the class Fluid (a 2-D "stable fluids"     *)
(* solver) with its fields density, s, velo, velo0 and its methods         *)
(* set_boundaries, lin_solve, diffuse, project, advect and step.           *)
(*                                                                         *)
(* Numbers.  The program computes in Python floats.  The model computes    *)
(* in exact rationals <<n, d>> (d > 0, lowest terms), so every equality    *)
(* below is an equality of the real-number values the code's formulas      *)
(* denote.  TLC stops with an overflow error, never a wrong answer, when   *)
(* a numerator or denominator leaves 32 bits.                              *)
(*                                                                         *)
(* Tables.  A numpy array of shape (size, size) or (size, size, 2) is a    *)
(* function from Cells to a tuple of 1 or 2 rationals; the slice           *)
(* table[:, :, k] of a vector table is Comp(table, k + 1).                 *)
(***************************************************************************)
EXTENDS Integers, Sequences, FiniteSets, TLC

VARIABLES
    density,   \* self.density
    s,         \* self.s, the density scratch buffer
    velo,      \* self.velo
    velo0,     \* self.velo0, the velocity scratch buffer
    visc,      \* self.visc
    diff,      \* self.diff
    pc,        \* the position of the caller: which call comes next
    steps,     \* number of step() calls started
    log,       \* the calls step() has made so far, with their arguments
    injected,  \* how many amounts were added to cells, and their total
    prev       \* the fields as they were when the last call was entered

vars == <<density, s, velo, velo0, visc, diff, pc, steps, log, injected, prev>>

----------------------------------------------------------------------------
(* Configuration of Fluid.__init__, bounded for checking.                  *)

size == 4
iter == 2
MaxSteps == 2
MaxVelSteps == 1
MaxInject == 1

----------------------------------------------------------------------------
(* Exact rational arithmetic standing for Python's float arithmetic.       *)
(* Intermediate values are passed as operator parameters throughout.       *)

Abs(n) == IF n < 0 THEN -n ELSE n

RECURSIVE Gcd(_, _)
Gcd(a, b) == IF b = 0 THEN a ELSE Gcd(b, a % b)

Reduce(n, d, g) == IF d < 0 THEN <<-(n \div g), -(d \div g)>> ELSE <<n \div g, d \div g>>

R(n, d) == Reduce(n, d, Gcd(Abs(n), Abs(d)))

Zero == <<0, 1>>
One == <<1, 1>>
Half == <<1, 2>>
Num(n) == <<n, 1>>

RAddOver(a, b, g) == R(a[1] * (b[2] \div g) + b[1] * (a[2] \div g), a[2] * (b[2] \div g))

RAdd(a, b) == RAddOver(a, b, Gcd(a[2], b[2]))

RNeg(a) == <<-a[1], a[2]>>

RSub(a, b) == RAdd(a, RNeg(b))

RMulOver(a, b, g1, g2) ==
    <<(a[1] \div g1) * (b[1] \div g2), (a[2] \div g2) * (b[2] \div g1)>>

RMul(a, b) == RMulOver(a, b, Gcd(Abs(a[1]), b[2]), Gcd(Abs(b[1]), a[2]))

RDiv(a, b) == RMul(a, IF b[1] < 0 THEN <<-b[2], -b[1]>> ELSE <<b[2], b[1]>>)

RLessOver(a, b, g) == a[1] * (b[2] \div g) < b[1] * (a[2] \div g)

RLess(a, b) == RLessOver(a, b, Gcd(a[2], b[2]))

RAbs(a) == <<Abs(a[1]), a[2]>>

RFloor(a) == a[1] \div a[2]

dt == Half

----------------------------------------------------------------------------
(* Tables (numpy arrays) and their element-wise arithmetic.                *)

Idx == 0 .. (size - 1)
Inner == 1 .. (size - 2)
Cells == Idx \X Idx
Interior == Inner \X Inner
Boundary == Cells \ Interior

Pick(S) == CHOOSE e \in S : TRUE

RECURSIVE Build(_, _)
Build(f, S) ==
    IF S = {} THEN <<>> ELSE (Pick(S) :> f[Pick(S)]) @@ Build(f, S \ {Pick(S)})

Table(f) == Build(f, Cells)

ZeroS == Table([c \in Cells |-> <<Zero>>])
ZeroV == Table([c \in Cells |-> <<Zero, Zero>>])

IsVector(table) == Len(table[<<0, 0>>]) > 1

CAdd(u, v) ==
    IF Len(u) = 1 THEN <<RAdd(u[1], v[1])>>
    ELSE <<RAdd(u[1], v[1]), RAdd(u[2], v[2])>>

CScale(r, u) ==
    IF Len(u) = 1 THEN <<RMul(r, u[1])>>
    ELSE <<RMul(r, u[1]), RMul(r, u[2])>>

Comp(table, k) == Table([c \in Cells |-> <<table[c][k]>>])

Join(tx, ty) == Table([c \in Cells |-> <<tx[c][1], ty[c][1]>>])

----------------------------------------------------------------------------
(* Fluid.set_boundaries                                                    *)

\* table[:, jd, k] = sg * table[:, js, k]
AssignCol(table, jd, js, k, sg) ==
    Table([c \in Cells |->
        IF c[2] = jd
        THEN [table[c] EXCEPT ![k] = RMul(Num(sg), table[<<c[1], js>>][k])]
        ELSE table[c]])

\* table[id, :, k] = sg * table[is, :, k]
AssignRow(table, id, is, k, sg) ==
    Table([c \in Cells |->
        IF c[1] = id
        THEN [table[c] EXCEPT ![k] = RMul(Num(sg), table[<<is, c[2]>>][k])]
        ELSE table[c]])

\* table[c] = 0.5 * (table[a] + table[b])
AssignCorner(table, c, a, b) ==
    [table EXCEPT ![c] = CScale(Half, CAdd(table[a], table[b]))]

Corners(table) ==
    AssignCorner(
        AssignCorner(
            AssignCorner(
                AssignCorner(table, <<0, 0>>, <<1, 0>>, <<0, 1>>),
                <<0, size - 1>>, <<1, size - 1>>, <<0, size - 2>>),
            <<size - 1, 0>>, <<size - 2, 0>>, <<size - 1, 1>>),
        <<size - 1, size - 1>>, <<size - 2, size - 1>>, <<size - 1, size - 2>>)

\* A variant of the vertical borders whose second line reads column 0 itself.
VerticalBordersTypo(table) ==
    AssignCol(AssignCol(AssignCol(AssignCol(table, 0, 1, 1, 1),
                                  0, 0, 2, -1),
                        size - 1, size - 2, 1, 1),
              size - 1, size - 2, 2, -1)

VerticalBorders(table) ==
    AssignCol(AssignCol(AssignCol(AssignCol(table, 0, 1, 1, 1),
                                  0, 1, 2, -1),
                        size - 1, size - 2, 1, 1),
              size - 1, size - 2, 2, -1)

\* A variant of the horizontal borders with the signs of the top row exchanged.
HorizontalBordersSwapped(table) ==
    AssignRow(AssignRow(AssignRow(AssignRow(table, 0, 1, 1, 1),
                                  0, 1, 2, -1),
                        size - 1, size - 2, 1, -1),
              size - 1, size - 2, 2, 1)

HorizontalBorders(table) ==
    AssignRow(AssignRow(AssignRow(AssignRow(table, 0, 1, 1, -1),
                                  0, 1, 2, 1),
                        size - 1, size - 2, 1, -1),
              size - 1, size - 2, 2, 1)

ScalarBorders(table) ==
    AssignRow(AssignRow(AssignCol(AssignCol(table, 0, 1, 1, 1),
                                  size - 1, size - 2, 1, 1),
                        0, 1, 1, 1),
              size - 1, size - 2, 1, 1)

set_boundaries(table) ==
    IF IsVector(table)
    THEN Corners(HorizontalBorders(VerticalBorders(table)))
    ELSE Corners(ScalarBorders(table))

----------------------------------------------------------------------------
(* Fluid.lin_solve and Fluid.diffuse                                       *)

\* One pass of the loop body: the right-hand side is evaluated as a whole
\* from the table as it stands, then assigned, then the boundary is set.
Sweep(x, x0, a, c_recip) ==
    set_boundaries(Table([c \in Cells |->
        IF c \in Interior
        THEN CScale(c_recip,
                CAdd(x0[c],
                     CScale(a, CAdd(CAdd(CAdd(x[<<c[1] + 1, c[2]>>],
                                              x[<<c[1] - 1, c[2]>>]),
                                         x[<<c[1], c[2] + 1>>]),
                                    x[<<c[1], c[2] - 1>>]))))
        ELSE x[c]]))

RECURSIVE Sweeps(_, _, _, _, _)
Sweeps(x, x0, a, c_recip, k) ==
    IF k = 0 THEN x ELSE Sweeps(Sweep(x, x0, a, c_recip), x0, a, c_recip, k - 1)

lin_solve(x, x0, a, c) == Sweeps(x, x0, a, RDiv(One, c), iter)

\* a = self.dt * diff * (self.size - 2) * (self.size - 2)
DiffuseCoefficient(dif) ==
    RMul(RMul(RMul(dt, dif), Num(size - 2)), Num(size - 2))

LinSolveDiffuse(x, x0, a) == lin_solve(x, x0, a, RAdd(One, RMul(Num(6), a)))

diffuse(x, x0, dif) ==
    IF dif # Zero
    THEN LinSolveDiffuse(x, x0, DiffuseCoefficient(dif))
    ELSE Table([c \in Cells |-> x0[c]])

----------------------------------------------------------------------------
(* Fluid.advect                                                            *)

ClampHigh(x) == IF RLess(RAdd(Num(size), Half), x) THEN RAdd(Num(size), Half) ELSE x

Clamp(x) == ClampHigh(IF RLess(x, Half) THEN Half ELSE x)

\* x, y: the clamped source coordinate; i0, i1, j0, j1: the indices read.
Around(x, y) ==
    [x |-> x, y |-> y,
     i0 |-> RFloor(x), i1 |-> RFloor(x) + 1,
     j0 |-> RFloor(y), j1 |-> RFloor(y) + 1]

\* The backward trace of cell c.
Trace(c, velocity) ==
    Around(Clamp(RSub(Num(c[1]), RMul(RMul(dt, Num(size - 2)), velocity[c][1]))),
           Clamp(RSub(Num(c[2]), RMul(RMul(dt, Num(size - 2)), velocity[c][2]))))

\* numpy raises IndexError for an index beyond the last one.
InRange(t) == {t.i0, t.i1, t.j0, t.j1} \subseteq Idx

Bilinear(d0, t, s0, s1, t0, t1) ==
    RAdd(RMul(s0, RAdd(RMul(t0, d0[<<t.i0, t.j0>>][1]),
                       RMul(t1, d0[<<t.i0, t.j1>>][1]))),
         RMul(s1, RAdd(RMul(t0, d0[<<t.i1, t.j0>>][1]),
                       RMul(t1, d0[<<t.i1, t.j1>>][1]))))

\* A variant with the weights exchanged: s0 = x - i0, t0 = y - j0.
InterpSwapped(d0, t) ==
    Bilinear(d0, t,
             RSub(t.x, Num(t.i0)), RSub(One, RSub(t.x, Num(t.i0))),
             RSub(t.y, Num(t.j0)), RSub(One, RSub(t.y, Num(t.j0))))

\* s1 = x - i0, s0 = 1.0 - s1, t1 = y - j0, t0 = 1.0 - t1
Interp(d0, t) ==
    Bilinear(d0, t,
             RSub(One, RSub(t.x, Num(t.i0))), RSub(t.x, Num(t.i0)),
             RSub(One, RSub(t.y, Num(t.j0))), RSub(t.y, Num(t.j0)))

\* The k-th cell the two nested loops visit: j outermost, i innermost.
LoopCell(k) == <<1 + (k % (size - 2)), 1 + (k \div (size - 2))>>

\* The loops from their k-th cell on.  ok is FALSE when a read raised
\* IndexError: the cells written before it keep their new values.
RECURSIVE AdvectLoop(_, _, _, _)
RECURSIVE AdvectCell(_, _, _, _, _)
AdvectCell(d, d0, velocity, k, t) ==
    IF ~InRange(t) THEN [ok |-> FALSE, d |-> d]
    ELSE AdvectLoop([d EXCEPT ![LoopCell(k)] = <<Interp(d0, t)>>],
                    d0, velocity, k + 1)

AdvectLoop(d, d0, velocity, k) ==
    IF k = (size - 2) * (size - 2) THEN [ok |-> TRUE, d |-> d]
    ELSE AdvectCell(d, d0, velocity, k, Trace(LoopCell(k), velocity))

AdvectEnd(r) == IF r.ok THEN [ok |-> TRUE, d |-> set_boundaries(r.d)] ELSE r

advect(d, d0, velocity) == AdvectEnd(AdvectLoop(d, d0, velocity, 0))

----------------------------------------------------------------------------
(* Fluid.project.  The caller passes the two components of one of the      *)
(* velocity buffers as velo_x, velo_y and the two components of the other  *)
(* one as p, div; tgt names the buffer that holds velo_x, velo_y.  The     *)
(* last statement sets the boundary of self.velo, whichever was passed.    *)

\* div[1:-1, 1:-1] = -0.5 * (...) / self.size, then set_boundaries(div)
Divergence(velo_x, velo_y, div) ==
    set_boundaries(Table([c \in Cells |->
        IF c \in Interior
        THEN <<RDiv(RMul(RNeg(Half),
                         RSub(RAdd(RSub(velo_x[<<c[1] + 1, c[2]>>][1],
                                        velo_x[<<c[1] - 1, c[2]>>][1]),
                                   velo_y[<<c[1], c[2] + 1>>][1]),
                              velo_y[<<c[1], c[2] - 1>>][1])),
                    Num(size))>>
        ELSE div[c]]))

\* p[:, :] = 0, set_boundaries(p), lin_solve(p, div, 1, 6)
Pressure(div) == lin_solve(set_boundaries(ZeroS), div, One, Num(6))

\* velo_x[1:-1, 1:-1] -= 0.5 * (p[2:, 1:-1] - p[:-2, 1:-1]) * self.size
\* velo_y[1:-1, 1:-1] -= 0.5 * (p[1:-1, 2:] - p[1:-1, :-2]) * self.size
SubtractGradient(F, p) ==
    Table([c \in Cells |->
        IF c \in Interior
        THEN <<RSub(F[c][1],
                    RMul(RMul(Half, RSub(p[<<c[1] + 1, c[2]>>][1],
                                         p[<<c[1] - 1, c[2]>>][1])),
                         Num(size))),
               RSub(F[c][2],
                    RMul(RMul(Half, RSub(p[<<c[1], c[2] + 1>>][1],
                                         p[<<c[1], c[2] - 1>>][1])),
                         Num(size)))>>
        ELSE F[c]])

\* self.set_boundaries(self.velo)
ProjectEnd(F, p, div, tgt) ==
    IF tgt = "velo"
    THEN [velo |-> set_boundaries(SubtractGradient(F, p)), velo0 |-> Join(p, div)]
    ELSE [velo |-> set_boundaries(Join(p, div)), velo0 |-> SubtractGradient(F, p)]

ProjectSolve(F, div, tgt) == ProjectEnd(F, Pressure(div), div, tgt)

ProjectOn(F, G, tgt) ==
    ProjectSolve(F, Divergence(Comp(F, 1), Comp(F, 2), Comp(G, 2)), tgt)

project(self_velo, self_velo0, tgt) ==
    IF tgt = "velo"
    THEN ProjectOn(self_velo, self_velo0, tgt)
    ELSE ProjectOn(self_velo0, self_velo, tgt)

----------------------------------------------------------------------------
(* The diagnostics total_density, vector_divergence, total_divergence.     *)

RECURSIVE RSum(_, _)
RSum(f, S) ==
    IF S = {} THEN Zero ELSE RAdd(f[Pick(S)], RSum(f, S \ {Pick(S)}))

\* A variant that sums the boundary cells too: density.sum().
TotalDensityAllCells(dens) == RSum([c \in Cells |-> dens[c][1]], Cells)

total_density(dens) == RSum([c \in Interior |-> dens[c][1]], Interior)

\* Sum of np.gradient of the three samples f0, f1, f2 along their axis:
\* one-sided differences at the two ends, a central difference between.
GradientSum(f0, f1, f2) ==
    RAdd(RAdd(RSub(f1, f0), RMul(Half, RSub(f2, f0))), RSub(f2, f1))

\* range(1, self.size - 2)
DivRange == 1 .. (size - 3)

\* divergence_map[y, x], from velocity_window = velo[y-1:y+2, x-1:x+2]
WindowDivergence(v, y, x) ==
    RAdd(RSum([b \in 0 .. 2 |->
                  GradientSum(v[<<y - 1, x - 1 + b>>][1],
                              v[<<y, x - 1 + b>>][1],
                              v[<<y + 1, x - 1 + b>>][1])], 0 .. 2),
         RSum([a \in 0 .. 2 |->
                  GradientSum(v[<<y - 1 + a, x - 1>>][2],
                              v[<<y - 1 + a, x>>][2],
                              v[<<y - 1 + a, x + 1>>][2])], 0 .. 2))

vector_divergence(v) ==
    Table([c \in Cells |->
        IF c[1] \in DivRange /\ c[2] \in DivRange
        THEN <<WindowDivergence(v, c[1], c[2])>>
        ELSE <<Zero>>])

SumAbs(m) == RSum([c \in Cells |-> RAbs(m[c][1])], Cells)

total_divergence(v) == SumAbs(vector_divergence(v))

----------------------------------------------------------------------------
(* Inputs of the specifications that exercise single methods: a table of   *)
(* zeros with up to two cells (anywhere, boundary included) overwritten.   *)

Vals == {-1, 2}

Poke(table, c, k, v) == [table EXCEPT ![c][k] = Num(v)]

ScalarInputs ==
    {Poke(Poke(ZeroS, c1, 1, v1), c2, 1, v2) :
        <<c1, c2>> \in Cells \X Cells, <<v1, v2>> \in Vals \X Vals}

VectorInputs ==
    {Poke(Poke(ZeroV, c1, k1, v1), c2, k2, v2) :
        <<c1, c2>> \in Cells \X Cells,
        <<k1, k2>> \in (1 .. 2) \X (1 .. 2),
        <<v1, v2>> \in Vals \X Vals}

Snapshot == [density |-> density, s |-> s, velo |-> velo, velo0 |-> velo0]

Config(v, d) ==
    /\ visc = v
    /\ diff = d
    /\ steps = 0
    /\ log = <<>>
    /\ injected = [n |-> 0, total |-> Zero]

----------------------------------------------------------------------------
(* Fluid.step: its seven calls, each as a function of the four buffers.    *)
(* fl is [density, s, velo, velo0, ok]; ok turns FALSE when a call raised. *)

Fields ==
    [density |-> density, s |-> s, velo |-> velo, velo0 |-> velo0, ok |-> TRUE]

\* self.diffuse(self.velo0, self.velo, self.visc)
diffuse_velo(fl, v) ==
    [fl EXCEPT !.velo0 = diffuse(fl.velo0, fl.velo, v)]

SetVelocities(fl, r) == [fl EXCEPT !.velo = r.velo, !.velo0 = r.velo0]

\* self.project(velo0[:, :, 0], velo0[:, :, 1], velo[:, :, 0], velo[:, :, 1])
project1(fl) == SetVelocities(fl, project(fl.velo, fl.velo0, "velo0"))

SetComponent(fl, k, r) ==
    [fl EXCEPT !.velo = IF k = 1 THEN Join(r.d, Comp(fl.velo, 2))
                                 ELSE Join(Comp(fl.velo, 1), r.d),
               !.ok = r.ok]

\* self.advect(self.velo[:, :, k], self.velo0[:, :, k], self.velo0)
advect_velo(fl, k) ==
    SetComponent(fl, k, advect(Comp(fl.velo, k), Comp(fl.velo0, k), fl.velo0))

\* self.project(velo[:, :, 0], velo[:, :, 1], velo0[:, :, 0], velo0[:, :, 1])
project2(fl) == SetVelocities(fl, project(fl.velo, fl.velo0, "velo"))

\* self.diffuse(self.s, self.density, self.diff)
diffuse_density(fl, d) ==
    [fl EXCEPT !.s = diffuse(fl.s, fl.density, d)]

SetDensity(fl, r) == [fl EXCEPT !.density = r.d, !.ok = r.ok]

\* self.advect(self.density, self.s, self.velo)
advect_density(fl) == SetDensity(fl, advect(fl.density, fl.s, fl.velo))

\* One whole step(); an exception ends it where it was raised.
StepFromAdvectVy(f4, d) ==
    IF ~f4.ok THEN f4 ELSE advect_density(diffuse_density(project2(f4), d))

StepFromAdvectVx(f3, d) ==
    IF ~f3.ok THEN f3 ELSE StepFromAdvectVy(advect_velo(f3, 2), d)

step(fl, v, d) ==
    StepFromAdvectVx(advect_velo(project1(diffuse_velo(fl, v)), 1), d)

\* A variant order with the second projection after the density diffusion.
AfterReordered(call) ==
    CASE call = "diffuse_velo" -> "project1"
      [] call = "project1" -> "advect_vx"
      [] call = "advect_vx" -> "advect_vy"
      [] call = "advect_vy" -> "diffuse_density"
      [] call = "diffuse_density" -> "project2"
      [] call = "project2" -> "advect_density"
      [] call = "advect_density" -> "idle"

\* The order of the calls in the body of step().
After(call) ==
    CASE call = "diffuse_velo" -> "project1"
      [] call = "project1" -> "advect_vx"
      [] call = "advect_vx" -> "advect_vy"
      [] call = "advect_vy" -> "project2"
      [] call = "project2" -> "diffuse_density"
      [] call = "diffuse_density" -> "advect_density"
      [] call = "advect_density" -> "idle"

\* What a call is and which buffers it was handed.
Entry(st, op, qty, reads, writes, by) ==
    [stage |-> st, op |-> op, qty |-> qty, reads |-> reads, writes |-> writes,
     by |-> by]

SetFields(fl, call) ==
    /\ density' = fl.density
    /\ s' = fl.s
    /\ velo' = fl.velo
    /\ velo0' = fl.velo0
    /\ pc' = IF fl.ok THEN After(call) ELSE "failed"

StepDiffuseVelo(bound) ==
    /\ pc = "idle"
    /\ steps < bound
    /\ steps' = steps + 1
    /\ SetFields(diffuse_velo(Fields, visc), "diffuse_velo")
    /\ log' = <<Entry(1, "diffuse", "velocity", "velo", "velo0", "-")>>
    /\ UNCHANGED <<visc, diff, injected, prev>>

StepProject1 ==
    /\ pc = "project1"
    /\ SetFields(project1(Fields), "project1")
    /\ log' = Append(log, Entry(2, "project", "velocity", "velo0", "velo0", "-"))
    /\ UNCHANGED <<visc, diff, steps, injected, prev>>

StepAdvectVx ==
    /\ pc = "advect_vx"
    /\ SetFields(advect_velo(Fields, 1), "advect_vx")
    /\ log' = Append(log, Entry(3, "advect", "velocity", "velo0", "velo", "velo0"))
    /\ UNCHANGED <<visc, diff, steps, injected, prev>>

StepAdvectVy ==
    /\ pc = "advect_vy"
    /\ SetFields(advect_velo(Fields, 2), "advect_vy")
    /\ log' = Append(log, Entry(3, "advect", "velocity", "velo0", "velo", "velo0"))
    /\ UNCHANGED <<visc, diff, steps, injected, prev>>

StepProject2 ==
    /\ pc = "project2"
    /\ SetFields(project2(Fields), "project2")
    /\ log' = Append(log, Entry(4, "project", "velocity", "velo", "velo", "-"))
    /\ UNCHANGED <<visc, diff, steps, injected, prev>>

StepDiffuseDensity ==
    /\ pc = "diffuse_density"
    /\ SetFields(diffuse_density(Fields, diff), "diffuse_density")
    /\ log' = Append(log, Entry(5, "diffuse", "density", "density", "s", "-"))
    /\ UNCHANGED <<visc, diff, steps, injected, prev>>

StepAdvectDensity ==
    /\ pc = "advect_density"
    /\ SetFields(advect_density(Fields), "advect_density")
    /\ log' = Append(log, Entry(6, "advect", "density", "s", "density", "velo"))
    /\ UNCHANGED <<visc, diff, steps, injected, prev>>

RestOfStep ==
    \/ StepProject1
    \/ StepAdvectVx
    \/ StepAdvectVy
    \/ StepProject2
    \/ StepDiffuseDensity
    \/ StepAdvectDensity

\* Between steps the caller adds an amount to one cell of a field.
DensityAmounts == {1, 100}
VelocityAmounts == {-4, 4}

AddDensity(c, amt) ==
    /\ pc = "idle"
    /\ injected.n < MaxInject
    /\ density' = [density EXCEPT ![c][1] = RAdd(@, Num(amt))]
    /\ injected' = [n |-> injected.n + 1, total |-> RAdd(injected.total, Num(amt))]
    /\ UNCHANGED <<s, velo, velo0, visc, diff, pc, steps, log, prev>>

AddVelocity(c, k, amt) ==
    /\ pc = "idle"
    /\ injected.n < MaxInject
    /\ velo' = [velo EXCEPT ![c][k] = RAdd(@, Num(amt))]
    /\ injected' = [injected EXCEPT !.n = @ + 1]
    /\ UNCHANGED <<density, s, velo0, visc, diff, pc, steps, log, prev>>

InitZero ==
    /\ density = ZeroS
    /\ s = ZeroS
    /\ velo = ZeroV
    /\ velo0 = ZeroV
    /\ pc = "idle"
    /\ prev = Snapshot

----------------------------------------------------------------------------
(* SpecB: set_boundaries applied to self.velo and to self.density, from    *)
(* arbitrary contents.                                                     *)

InitB ==
    /\ \/ density \in ScalarInputs /\ velo = ZeroV
       \/ density = ZeroS /\ velo \in VectorInputs
    /\ s = ZeroS
    /\ velo0 = ZeroV
    /\ pc = "fresh"
    /\ prev = Snapshot
    /\ Config(Zero, Zero)

CallSetBoundaries ==
    /\ pc \in {"fresh", "once"}
    /\ pc' = IF pc = "fresh" THEN "once" ELSE "twice"
    /\ prev' = Snapshot
    /\ velo' = set_boundaries(velo)
    /\ density' = set_boundaries(density)
    /\ UNCHANGED <<s, velo0, visc, diff, steps, log, injected>>

NextB == CallSetBoundaries

SpecB == InitB /\ [][NextB]_vars

\* C1: set_boundaries is idempotent: a second application in succession
\* leaves every cell of a scalar and of a vector table, edges and corners
\* included, as the first application left it.
BoundaryIdempotent ==
    pc = "twice" => (velo = prev.velo /\ density = prev.density)

BoundaryIdempotentWitness ==
    /\ pc = "twice"
    /\ \E c \in Cells \ Interior : velo[c] # <<Zero, Zero>>
    /\ velo[<<1, 1>>][2] # Zero

NonCornerLeft == {<<i, 0>> : i \in Inner}
NonCornerRight == {<<i, size - 1>> : i \in Inner}
NonCornerTop == {<<0, j>> : j \in Inner}
NonCornerBottom == {<<size - 1, j>> : j \in Inner}

\* C2: after set_boundaries on a vector table, every non-corner boundary
\* cell holds the adjacent interior cell's normal component negated and its
\* tangential component unchanged (component 0 runs along the first index,
\* component 1 along the second).
ReflectionSign ==
    pc \in {"once", "twice"} =>
        /\ \A c \in NonCornerLeft :
              /\ velo[c][2] = RNeg(velo[<<c[1], 1>>][2])
              /\ velo[c][1] = velo[<<c[1], 1>>][1]
        /\ \A c \in NonCornerRight :
              /\ velo[c][2] = RNeg(velo[<<c[1], size - 2>>][2])
              /\ velo[c][1] = velo[<<c[1], size - 2>>][1]
        /\ \A c \in NonCornerTop :
              /\ velo[c][1] = RNeg(velo[<<1, c[2]>>][1])
              /\ velo[c][2] = velo[<<1, c[2]>>][2]
        /\ \A c \in NonCornerBottom :
              /\ velo[c][1] = RNeg(velo[<<size - 2, c[2]>>][1])
              /\ velo[c][2] = velo[<<size - 2, c[2]>>][2]

ReflectionSignWitness ==
    /\ pc = "once"
    /\ velo[<<1, 1>>][1] # Zero
    /\ velo[<<0, 1>>][1] = RNeg(velo[<<1, 1>>][1])
    /\ velo[<<1, 1>>][2] # Zero
    /\ velo[<<1, 0>>][2] = RNeg(velo[<<1, 1>>][2])

----------------------------------------------------------------------------
(* SpecOps: advect and diffuse called as step() calls them on the density  *)
(* (advect(density, s, velo), diffuse(s, density, diff)), with diff = 0    *)
(* and an all-zero velo, from arbitrary contents of s and density.         *)

TargetInputs == {Poke(ZeroS, c, 1, 2) : c \in {<<0, 0>>, <<0, 1>>, <<1, 1>>}}

InitOps ==
    /\ \/ s \in ScalarInputs /\ density \in TargetInputs
       \/ density \in ScalarInputs /\ s \in TargetInputs
    /\ velo = ZeroV
    /\ velo0 = ZeroV
    /\ pc = "fresh"
    /\ prev = Snapshot
    /\ Config(Zero, Zero)

CallAdvect ==
    /\ pc = "fresh"
    /\ \E r \in {advect(density, s, velo)} :
           /\ density' = r.d
           /\ pc' = IF r.ok THEN "advected" ELSE "failed"
    /\ prev' = Snapshot
    /\ UNCHANGED <<s, velo, velo0, visc, diff, steps, log, injected>>

CallDiffuse ==
    /\ pc = "fresh"
    /\ s' = diffuse(s, density, diff)
    /\ pc' = "diffused"
    /\ prev' = Snapshot
    /\ UNCHANGED <<density, velo, velo0, visc, diff, steps, log, injected>>

NextOps == CallAdvect \/ CallDiffuse

SpecOps == InitOps /\ [][NextOps]_vars

\* C4 as stated: advect with an all-zero velocity leaves d identical to d0
\* at every cell of the grid, whatever d0 holds in its boundary cells.
AdvectZeroIdentityAllCells ==
    pc = "advected" => density = prev.s

\* C4 as amended: advect with an all-zero velocity leaves d equal to d0 at
\* every interior cell and gives d's boundary cells the values the scalar
\* boundary rule derives from that interior; d equals d0 at every cell
\* exactly when d0's boundary cells already satisfy that rule.
AdvectZeroIdentityInterior ==
    pc = "advected" =>
        /\ \A c \in Interior : density[c] = prev.s[c]
        /\ density = set_boundaries(prev.s)
        /\ (density = prev.s) <=> (prev.s = set_boundaries(prev.s))

AdvectZeroIdentityWitness ==
    /\ pc = "advected"
    /\ \E c \in Interior : density[c] # <<Zero>>
    /\ \E c \in Boundary : density[c] # prev.s[c]

\* C7: diffuse(x, x0, 0) leaves x in the same state at every cell as
\* lin_solve(x, x0, a=0, c=1) would.
ZeroDiffuseIsZeroSolve ==
    pc = "diffused" => s = lin_solve(prev.s, prev.density, Zero, One)

----------------------------------------------------------------------------
(* SpecProj: project called as step() calls it the second time, on         *)
(* self.velo in place with the components of velo0 as scratch, from an     *)
(* arbitrary velocity field whose measured divergence is not zero.         *)

InitProj ==
    /\ velo \in {v \in VectorInputs : total_divergence(v) # Zero}
    /\ velo0 = ZeroV
    /\ density = ZeroS
    /\ s = ZeroS
    /\ pc = "fresh"
    /\ prev = Snapshot
    /\ Config(Zero, Zero)

CallProject ==
    /\ pc = "fresh"
    /\ \E r \in {project(velo, velo0, "velo")} :
           /\ velo' = r.velo
           /\ velo0' = r.velo0
    /\ pc' = "projected"
    /\ prev' = Snapshot
    /\ UNCHANGED <<density, s, visc, diff, steps, log, injected>>

NextProj == CallProject

SpecProj == InitProj /\ [][NextProj]_vars

\* C5: after project() runs on an arbitrary velocity field, total_divergence
\* of the resulting field is smaller than total_divergence of the field
\* before projection.
ProjectionReducesDivergence ==
    pc = "projected" =>
        RLess(total_divergence(velo), total_divergence(prev.velo))

----------------------------------------------------------------------------
(* Spec: the fluid at rest.  Zero-initialised, diff = 0 and visc = 0;      *)
(* density is added to interior cells between steps, velocity never.       *)

Init == InitZero /\ Config(Zero, Zero)

Inject == \E c \in Interior, amt \in DensityAmounts : AddDensity(c, amt)

Next == Inject \/ StepDiffuseVelo(MaxSteps) \/ RestOfStep

Spec == Init /\ [][Next]_vars

\* C3: at rest (diff = 0, visc = 0, no velocity added), after density D was
\* added to an interior cell, after any number of step() calls total_density
\* equals D and every velocity component of every cell is zero.
MassConservedAtRest ==
    pc = "idle" =>
        /\ total_density(density) = injected.total
        /\ velo = ZeroV

MassConservedAtRestWitness ==
    /\ pc = "idle"
    /\ steps >= 2
    /\ injected.total # Zero
    /\ \E c \in Boundary : density[c] # <<Zero>>

Pipeline ==
    << Entry(1, "diffuse", "velocity", "velo", "velo0", "-"),
       Entry(2, "project", "velocity", "velo0", "velo0", "-"),
       Entry(3, "advect", "velocity", "velo0", "velo", "velo0"),
       Entry(3, "advect", "velocity", "velo0", "velo", "velo0"),
       Entry(4, "project", "velocity", "velo", "velo", "-"),
       Entry(5, "diffuse", "density", "density", "s", "-"),
       Entry(6, "advect", "density", "s", "density", "velo") >>

SetMax(S) == CHOOSE m \in S : \A n \in S : n <= m

\* The calls before the k-th that belong to an earlier stage on quantity q.
EarlierOn(k, q) ==
    {m \in 1 .. (k - 1) : log[m].qty = q /\ log[m].stage < log[k].stage}

\* The calls before the k-th that belong to an earlier stage, on any quantity.
Earlier(k) == {m \in 1 .. (k - 1) : log[m].stage < log[k].stage}

\* Every call after the first stage reads the buffer that the stage just
\* before its own wrote.
PreviousStageDataFlow ==
    \A k \in 1 .. Len(log) :
        Earlier(k) # {} => log[k].reads = log[SetMax(Earlier(k))].writes

\* Every call reads what the latest earlier stage on its quantity wrote (the
\* field itself when it is the first), and an advect is driven by what the
\* latest earlier velocity stage wrote.
ForwardDataFlow ==
    \A k \in 1 .. Len(log) :
        /\ IF EarlierOn(k, log[k].qty) = {}
           THEN log[k].reads = (IF log[k].qty = "velocity" THEN "velo" ELSE "density")
           ELSE log[k].reads = log[SetMax(EarlierOn(k, log[k].qty))].writes
        /\ log[k].by # "-" =>
              /\ EarlierOn(k, "velocity") # {}
              /\ log[k].by = log[SetMax(EarlierOn(k, "velocity"))].writes

\* The calls made so far in the current step() are a prefix of the six
\* stages in their order, and a finished step() made all of them.
StagesInOrder ==
    /\ Len(log) <= Len(Pipeline)
    /\ log = SubSeq(Pipeline, 1, Len(log))
    /\ (pc = "idle" /\ steps > 0) => log = Pipeline
    /\ (pc # "idle") => (Len(log) < Len(Pipeline) /\ pc # "failed")

----------------------------------------------------------------------------
(* SpecVel: the fluid stirred.  Zero-initialised, diff = 0 and visc = 0;    *)
(* an amount of either sign is added to one velocity component of one cell *)
(* between steps.                                                          *)

InitVel == InitZero /\ Config(Zero, Zero)

Stir == \E c \in Cells, k \in 1 .. 2, amt \in VelocityAmounts : AddVelocity(c, k, amt)

NextVel == Stir \/ StepDiffuseVelo(MaxVelSteps) \/ RestOfStep

SpecVel == InitVel /\ [][NextVel]_vars

\* C6: from the zero-initialised state, with finite amounts of either sign
\* added to cells between steps, every step() runs to completion: no call
\* raises, and in every advect pass the four indices read for every interior
\* cell lie within 0 .. size-1.
StepRaisesNoError ==
    /\ pc # "failed"
    /\ pc \in {"advect_vx", "advect_vy"} =>
          \A c \in Interior : InRange(Trace(c, velo0))
    /\ pc = "advect_density" =>
          \A c \in Interior : InRange(Trace(c, velo))

\* C9: whenever project returns, the boundary cells of the velocity buffer
\* it projected satisfy the vector boundary condition with respect to that
\* buffer's interior: velo0 after the first projection of step(), whose
\* result the advect calls read next, and velo after the second.
ProjectEnforcesBoundary ==
    /\ pc = "advect_vx" => velo0 = set_boundaries(velo0)
    /\ pc = "diffuse_density" => velo = set_boundaries(velo)

----------------------------------------------------------------------------
(* SpecDiff: the fluid at rest with diffusion.  Zero-initialised, visc and *)
(* diff each 0 or 0.5; density is added to interior cells between steps.   *)

Rates == {Zero, Half}

InitDiff == InitZero /\ \E v \in Rates, d \in Rates : Config(v, d)

NextDiff == Inject \/ StepDiffuseVelo(MaxSteps) \/ RestOfStep

SpecDiff == InitDiff /\ [][NextDiff]_vars

\* C10: two states that agree on density, velo, visc and diff but differ in
\* the scratch buffers s and velo0 have the same density and the same velo
\* after one step(): here the state reached and the same state with its
\* scratch buffers zeroed.
StepDeterministic ==
    pc = "idle" =>
        \A alt \in {[Fields EXCEPT !.s = ZeroS, !.velo0 = ZeroV]} :
            /\ step(Fields, visc, diff).density = step(alt, visc, diff).density
            /\ step(Fields, visc, diff).velo = step(alt, visc, diff).velo

====
